---- MODULE Spec2Model ----
(***************************************************************************)
(* Model of src/src/App.tsx: the React component App of stock-ai-frontend. *)
(*                                                                         *)
(* State: the eight useState cells of App, the four catalog fetches of the *)
(* mount effect, and the price / AI requests that are in flight.           *)
(*                                                                         *)
(* Strings are sequences of one-character strings, so that split,          *)
(* toLowerCase and includes are computed as the code computes them.        *)
(* A nullable value (Stock | null, number | null, AiResult | null) is a    *)
(* sequence of length at most one: << >> is null and <<v>> is the value v. *)
(*                                                                         *)
(* Granularity: one action is one browser task.  A user event (input,      *)
(* click) is a discrete event: React commits its state updates and runs    *)
(* the effects whose dependencies changed before the next task, so the     *)
(* effects of lines 75-86 and 89-105 are part of the action of the event   *)
(* that changed their dependencies.  A promise chain (then / catch /       *)
(* finally) runs in consecutive microtasks of one task, so the resolution  *)
(* of a request is one action.                                             *)
(***************************************************************************)
EXTENDS Integers, Sequences, FiniteSets, TLC

(***************************************************************************)
(* Bounds of the model.                                                    *)
(***************************************************************************)
\* number of price requests dispatched in one run (caps the counter nPrice)
MaxPriceReq == 2
\* number of AI requests dispatched in one run (caps the counter nAi)
MaxAiReq == 2
\* length of the texts handed to parseCSV on its own
MaxCsvLen == 7

(***************************************************************************)
(* Program constants.                                                      *)
(***************************************************************************)
\* .slice(0, 20), App.tsx line 84
ResultCap == 20

Null == << >>

Some(v) == <<v>>

(***************************************************************************)
(* Characters and strings.                                                 *)
(***************************************************************************)
LF == "\n"

CR == "\r"

COMMA == ","

UpperLetters == <<"A","B","C","D","E","F","G","H","I","J","K","L","M",
                  "N","O","P","Q","R","S","T","U","V","W","X","Y","Z">>

LowerLetters == <<"a","b","c","d","e","f","g","h","i","j","k","l","m",
                  "n","o","p","q","r","s","t","u","v","w","x","y","z">>

\* String.prototype.toLowerCase, one character
toLowerChar(c) ==
    IF \E i \in 1..26 : UpperLetters[i] = c
    THEN LowerLetters[CHOOSE i \in 1..26 : UpperLetters[i] = c]
    ELSE c

\* String.prototype.toLowerCase
toLowerCase(s) == [i \in 1..Len(s) |-> toLowerChar(s[i])]

\* String.prototype.includes: q occurs in s as a contiguous substring
includes(s, q) ==
    \E i \in 0..(Len(s) - Len(q)) : SubSeq(s, i + 1, i + Len(q)) = q

\* Array.prototype.slice(0, n)
slice0(s, n) == SubSeq(s, 1, IF Len(s) < n THEN Len(s) ELSE n)

RECURSIVE split(_, _)
\* String.prototype.split(sep) for a one-character separator: always at
\* least one piece, the empty string splits into one empty piece
split(s, sep) ==
    IF \E i \in 1..Len(s) : s[i] = sep
    THEN LET i == CHOOSE k \in 1..Len(s) :
                     s[k] = sep /\ \A j \in 1..(k - 1) : s[j] # sep
         IN  <<SubSeq(s, 1, i - 1)>> \o split(SubSeq(s, i + 1, Len(s)), sep)
    ELSE <<s>>

\* line.replace(/\r/g, '')
stripCR(line) ==
    LET notCR(c) == c # CR
    IN  SelectSeq(line, notCR)

RECURSIVE flatten(_)
flatten(ss) == IF ss = << >> THEN << >> ELSE Head(ss) \o flatten(Tail(ss))

(***************************************************************************)
(* parseCSV, lines 44-55.                                                  *)
(***************************************************************************)
\* the columns of one line, line 47
colsOf(line) == split(stripCR(line), COMMA)

\* lines 48-53: a line with fewer than 3 columns maps to null
rowOf(line) ==
    LET cols == colsOf(line)
    IN  IF Len(cols) < 3
        THEN Null
        ELSE Some([Symbol |-> cols[1], Security |-> cols[2], Market |-> cols[3]])

\* parseCSV without the slice(1) of line 46: the header line is parsed too
parseCSVKeepsHeader(csv) ==
    LET lines == split(csv, LF)
        rows  == [i \in 1..Len(lines) |-> rowOf(lines[i])]
    IN  flatten(rows)

parseCSV(csv) ==
    LET lines == split(csv, LF)
        rows  == [i \in 1..(Len(lines) - 1) |-> rowOf(lines[i + 1])]
    IN  flatten(rows)

(***************************************************************************)
(* getUnit, line 23.                                                       *)
(***************************************************************************)
KOSPI == <<"K","O","S","P","I">>

KOSDAQ == <<"K","O","S","D","A","Q">>

NASDAQ == <<"N","A","S","D","A","Q">>

WON == "won"

DOLLAR == "dollar"

\* getUnit that knows only one of the two won markets
getUnitKospiOnly(market) == IF market = KOSPI THEN WON ELSE DOLLAR

getUnit(market) == IF market = KOSPI \/ market = KOSDAQ THEN WON ELSE DOLLAR

(***************************************************************************)
(* The search effect, lines 75-86.                                         *)
(***************************************************************************)
\* the filter predicate of line 83, q already lower-cased
matches(s, q) ==
    includes(toLowerCase(s.Symbol), q) \/ includes(toLowerCase(s.Security), q)

\* searchResults without the early return of lines 76-79
searchResultsNoEmptyGuard(q, stocks) ==
    LET lq == toLowerCase(q)
        hit(s) == matches(s, lq)
    IN  slice0(SelectSeq(stocks, hit), ResultCap)

\* searchResults with slice(0, 20) applied before filter
searchResultsSliceFirst(q, stocks) ==
    IF q = << >>
    THEN << >>
    ELSE LET lq == toLowerCase(q)
             hit(s) == matches(s, lq)
         IN  SelectSeq(slice0(stocks, ResultCap), hit)

\* the value the effect passes to setResults
searchResults(q, stocks) ==
    IF q = << >>
    THEN << >>
    ELSE LET lq == toLowerCase(q)
             hit(s) == matches(s, lq)
         IN  slice0(SelectSeq(stocks, hit), ResultCap)

(***************************************************************************)
(* The catalog files served to the mount effect, lines 58-72.  The content *)
(* of the four files is an input: Init draws it from Fixtures.             *)
(***************************************************************************)
\* the four sources, in the order of the Promise.all of lines 59-64
Sources == <<"us", "ko", "nyse", "kosdaq">>

SourceSet == {Sources[i] : i \in 1..Len(Sources)}

HeaderLine == <<"S", COMMA, "N", COMMA, "M">>

\* data lines: symbol, name, market
LineS1 == <<"A", "B", COMMA, "a", COMMA>> \o NASDAQ

LineS2 == <<"B", COMMA, "B", "a", COMMA>> \o KOSPI

LineS3 == <<"A", "B", COMMA, "b", COMMA>> \o KOSPI

LineS4 == <<"A", COMMA, "A", COMMA>> \o KOSDAQ

DataLines == <<LineS1, LineS2, LineS3, LineS4>>

RECURSIVE joinLines(_)
\* the lines of a file, each line but the last followed by a line feed
joinLines(ls) ==
    IF Len(ls) = 0 THEN << >>
    ELSE IF Len(ls) = 1 THEN ls[1]
    ELSE ls[1] \o <<LF>> \o joinLines(Tail(ls))

\* a file of more than ResultCap rows: 26 data lines, 23 of them with a "b"
BigLayout == <<1, 4, 2, 3, 1, 2, 4, 3, 1, 2, 3, 1, 2, 3, 3, 1, 2, 1, 2, 3,
               1, 2, 3, 2, 4, 1>>

BigFile ==
    joinLines(<<HeaderLine>> \o [i \in 1..Len(BigLayout) |-> DataLines[BigLayout[i]]]
              \o << << >> >>)

\* fixture 1: small files with carriage returns, a short line, an extra
\* field, an empty file and a file without a final line feed
\* fixture 2: one file of more than ResultCap rows
csvFile(f, src) ==
    IF f = 1
    THEN CASE src = "us"     -> joinLines(<<HeaderLine, LineS1 \o <<CR>>,
                                            <<"B", COMMA, "B", "a", CR>>, << >> >>)
           [] src = "ko"     -> joinLines(<<HeaderLine, LineS2 \o <<COMMA, "x">>, << >> >>)
           [] src = "nyse"   -> << >>
           [] src = "kosdaq" -> joinLines(<<HeaderLine \o <<CR>>, LineS3 \o <<CR>>, LineS4>>)
    ELSE CASE src = "us"     -> BigFile
           [] src = "ko"     -> joinLines(<<HeaderLine, LineS3>>)
           [] src = "nyse"   -> joinLines(<<HeaderLine>>)
           [] src = "kosdaq" -> joinLines(<<HeaderLine, LineS4, << >> >>)

Fixtures == {1, 2}

\* the query strings the user types or pastes
Queries == {<< >>, <<"B">>, <<"a", "b">>}

\* outcomes of an HTTP request of lines 97 and 112: a 2xx response with a
\* JSON body, a non-2xx response (line 99 / 114 throws), a rejected fetch
Outcomes == {"ok", "http", "net"}

\* data.close of a 2xx price response
Closes == {"185.5"}

\* the body of a 2xx AI response
AiBodies == {"forecastX"}

(***************************************************************************)
(* State.                                                                  *)
(***************************************************************************)
VARIABLES
    query,          \* useState(''), line 34
    results,        \* useState<Stock[]>([]), line 35
    selected,       \* useState<Stock | null>(null), line 36
    allStocks,      \* useState<Stock[]>([]), line 37
    latestPrice,    \* useState<number | null>(null), line 38
    aiResult,       \* useState<AiResult | null>(null), line 39
    loadingPrice,   \* useState(false), line 40
    loadingAi,      \* useState(false), line 41
    fixture,        \* which catalog files the server holds
    csvFetch,       \* the state of each fetch of lines 60-63
    pricePending,   \* the price requests of line 97 that have not settled
    aiPending,      \* the AI requests of line 112 that have not settled
    nPrice,         \* number of price requests dispatched so far
    nAi,            \* number of AI requests dispatched so far
    event,          \* the task that produced this state (history)
    csvText,        \* a text handed to parseCSV on its own
    parsed          \* the value parseCSV returned for csvText, or null

vars == <<query, results, selected, allStocks, latestPrice, aiResult,
          loadingPrice, loadingAi, fixture, csvFetch, pricePending, aiPending,
          nPrice, nAi, event, csvText, parsed>>

\* the input and the output of parseCSV when it is exercised on its own
parseVars == <<csvText, parsed>>

catalogVars == <<allStocks, fixture, csvFetch>>

priceVars == <<latestPrice, loadingPrice, pricePending, nPrice>>

aiVars == <<aiResult, loadingAi, aiPending, nAi>>

\* the history record of one task
Event(kind, outcome, req, hadSel) ==
    [kind |-> kind, outcome |-> outcome, req |-> req, hadSel |-> hadSel]

\* the identity of a Security: symbol and market
identOf(s) == <<s.Symbol, s.Market>>

\* priceRequest with the symbol in the market parameter of the URL
priceRequestSymbolAsMarket(sel, id) ==
    [id |-> id, Symbol |-> sel.Symbol, Market |-> sel.Symbol]

\* the request of line 97: the URL carries selected.Symbol and selected.Market
priceRequest(sel, id) == [id |-> id, Symbol |-> sel.Symbol, Market |-> sel.Market]

\* aiRequest with the name in the symbol parameter of the URL
aiRequestNameAsSymbol(sel, id) ==
    [id |-> id, Symbol |-> sel.Security, Market |-> sel.Market]

\* the request of line 112
aiRequest(sel, id) == [id |-> id, Symbol |-> sel.Symbol, Market |-> sel.Market]

\* priceValue without the res.ok test of line 99: the body of a non-2xx
\* response is decoded like a 2xx one
priceValueIgnoresStatus(outcome, close) ==
    IF outcome = "net" THEN Null ELSE Some(close)

\* lines 98-103: what the promise chain passes to setLatestPrice
priceValue(outcome, close) == IF outcome = "ok" THEN Some(close) ELSE Null

\* lines 113-118: what the promise chain passes to setAiResult
aiValue(outcome, body) == IF outcome = "ok" THEN Some(body) ELSE Null

\* lines 65-70: the argument of setAllStocks
loadedCatalog(f) ==
    parseCSV(csvFile(f, "us")) \o parseCSV(csvFile(f, "ko"))
        \o parseCSV(csvFile(f, "nyse")) \o parseCSV(csvFile(f, "kosdaq"))

(***************************************************************************)
(* Init: the state after App has mounted and its three effects have run    *)
(* once: the four catalog fetches are pending (lines 59-64), the search    *)
(* effect has set results to [] (line 77) and the selection effect has set *)
(* latestPrice and aiResult to null (lines 91-92).                         *)
(***************************************************************************)
Init ==
    /\ query = << >>
    /\ results = << >>
    /\ selected = Null
    /\ allStocks = << >>
    /\ latestPrice = Null
    /\ aiResult = Null
    /\ loadingPrice = FALSE
    /\ loadingAi = FALSE
    /\ fixture \in Fixtures
    /\ csvFetch = [s \in SourceSet |-> "pending"]
    /\ pricePending = {}
    /\ aiPending = {}
    /\ nPrice = 0
    /\ nAi = 0
    /\ event = Event("mount", "", Null, FALSE)
    /\ csvText = << >>
    /\ parsed = Null

(***************************************************************************)
(* The effects.                                                            *)
(***************************************************************************)
\* useEffect(..., [query, allStocks]), lines 75-86
SearchEffect(q, stocks) == results' = searchResults(q, stocks)

\* useEffect(..., [selected]), lines 89-105, run for the new value sel
SelectedEffect(sel) ==
    IF sel = Null
    THEN /\ latestPrice' = Null
         /\ aiResult' = Null
         /\ UNCHANGED <<loadingPrice, pricePending, nPrice>>
    ELSE /\ loadingPrice' = TRUE
         /\ latestPrice' = Null
         /\ pricePending' = pricePending \cup {priceRequest(sel[1], nPrice + 1)}
         /\ nPrice' = nPrice + 1
         /\ UNCHANGED aiResult

(***************************************************************************)
(* User events.                                                            *)
(***************************************************************************)
\* onChange that abandons the pick only when the box is emptied
onChangeKeepsPick(v) ==
    /\ v # query
    /\ query' = v
    /\ selected' = IF v = << >> THEN Null ELSE selected
    /\ SearchEffect(v, allStocks)
    /\ IF selected # Null /\ v = << >>
       THEN SelectedEffect(Null)
       ELSE UNCHANGED <<latestPrice, aiResult, loadingPrice, pricePending, nPrice>>
    /\ event' = Event("onChange", "", Null, selected # Null)
    /\ UNCHANGED parseVars
    /\ UNCHANGED <<catalogVars, loadingAi, aiPending, nAi>>

\* onChange whose search effect narrows the catalog itself (setAllStocks in
\* place of setResults at line 81)
onChangeFiltersCatalog(v) ==
    /\ v # query
    /\ query' = v
    /\ selected' = Null
    /\ allStocks' = IF v = << >> THEN allStocks ELSE searchResults(v, allStocks)
    /\ results' = searchResults(v, allStocks)
    /\ IF selected # Null
       THEN SelectedEffect(Null)
       ELSE UNCHANGED <<latestPrice, aiResult, loadingPrice, pricePending, nPrice>>
    /\ event' = Event("onChange", "", Null, selected # Null)
    /\ UNCHANGED parseVars
    /\ UNCHANGED <<fixture, csvFetch, loadingAi, aiPending, nAi>>

\* onChange without the setSelected(null) of line 134
onChangeNoClear(v) ==
    /\ v # query
    /\ query' = v
    /\ SearchEffect(v, allStocks)
    /\ event' = Event("onChange", "", Null, selected # Null)
    /\ UNCHANGED parseVars
    /\ UNCHANGED <<selected, catalogVars, priceVars, aiVars>>

\* onChange of the input, lines 132-135, with e.target.value = v.  The
\* search effect runs because query changed; the selection effect runs only
\* if selected changed, that is if it was not already null.
onChange(v) ==
    /\ v # query
    /\ query' = v
    /\ selected' = Null
    /\ SearchEffect(v, allStocks)
    /\ IF selected # Null
       THEN SelectedEffect(Null)
       ELSE UNCHANGED <<latestPrice, aiResult, loadingPrice, pricePending, nPrice>>
    /\ event' = Event("onChange", "", Null, selected # Null)
    /\ UNCHANGED parseVars
    /\ UNCHANGED <<catalogVars, loadingAi, aiPending, nAi>>

\* the list of line 138 is rendered
listShown == query # << >> /\ Len(results) > 0 /\ selected = Null

\* onClick of the i-th entry of the result list, line 143, followed by the
\* selection effect: selected goes from null to a Stock, so it always runs
onClickResult(i) ==
    /\ listShown
    /\ nPrice < MaxPriceReq
    /\ selected' = Some(results[i])
    /\ SelectedEffect(Some(results[i]))
    /\ event' = Event("pick", "", Null, FALSE)
    /\ UNCHANGED parseVars
    /\ UNCHANGED <<query, results, catalogVars, loadingAi, aiPending, nAi>>

\* handleAiAnalyze, lines 108-120
handleAiAnalyze ==
    IF selected = Null
    THEN UNCHANGED vars
    ELSE /\ loadingAi' = TRUE
         /\ aiResult' = Null
         /\ aiPending' = aiPending \cup {aiRequest(selected[1], nAi + 1)}
         /\ nAi' = nAi + 1
         /\ event' = Event("analyze", "", Null, TRUE)
         /\ UNCHANGED parseVars
         /\ UNCHANGED <<query, results, selected, catalogVars, priceVars>>

\* analyzeEnabled without the disabled={loadingAi} of line 163
analyzeEnabledWhileLoading == selected # Null

\* the button of lines 163-165 is rendered (line 150) and not disabled
analyzeEnabled == selected # Null /\ ~loadingAi

\* a click on the analyze button
onClickAnalyze ==
    /\ analyzeEnabled
    /\ nAi < MaxAiReq
    /\ handleAiAnalyze

(***************************************************************************)
(* Network events.                                                         *)
(***************************************************************************)
\* priceSettled with a retry: a failed request is dispatched again
priceSettledRetries(r, outcome, close) ==
    /\ r \in pricePending
    /\ latestPrice' = priceValue(outcome, close)
    /\ IF outcome # "ok" /\ nPrice < MaxPriceReq
       THEN /\ loadingPrice' = TRUE
            /\ pricePending' = (pricePending \ {r}) \cup {[r EXCEPT !.id = nPrice + 1]}
            /\ nPrice' = nPrice + 1
       ELSE /\ loadingPrice' = FALSE
            /\ pricePending' = pricePending \ {r}
            /\ nPrice' = nPrice
    /\ event' = Event("price", outcome, Some(r), selected # Null)
    /\ UNCHANGED parseVars
    /\ UNCHANGED <<query, results, selected, catalogVars, aiVars>>

\* priceSettled with setLoadingPrice(false) in the then of line 102 instead
\* of the finally of line 104: a failure leaves the flag as it was
priceSettledLeaksLoading(r, outcome, close) ==
    /\ r \in pricePending
    /\ latestPrice' = priceValue(outcome, close)
    /\ loadingPrice' = IF outcome = "ok" THEN FALSE ELSE loadingPrice
    /\ pricePending' = pricePending \ {r}
    /\ event' = Event("price", outcome, Some(r), selected # Null)
    /\ UNCHANGED parseVars
    /\ UNCHANGED <<query, results, selected, catalogVars, nPrice, aiVars>>

\* the promise chain of lines 98-104 for the request r
priceSettled(r, outcome, close) ==
    /\ r \in pricePending
    /\ latestPrice' = priceValue(outcome, close)
    /\ loadingPrice' = FALSE
    /\ pricePending' = pricePending \ {r}
    /\ event' = Event("price", outcome, Some(r), selected # Null)
    /\ UNCHANGED parseVars
    /\ UNCHANGED <<query, results, selected, catalogVars, nPrice, aiVars>>

\* the promise chain of lines 113-119 for the request r
aiSettled(r, outcome, body) ==
    /\ r \in aiPending
    /\ aiResult' = aiValue(outcome, body)
    /\ loadingAi' = FALSE
    /\ aiPending' = aiPending \ {r}
    /\ event' = Event("ai", outcome, Some(r), selected # Null)
    /\ UNCHANGED parseVars
    /\ UNCHANGED <<query, results, selected, catalogVars, nAi, priceVars>>

\* the rows of the sources that have fulfilled, in source order
rowsOfDone(f, done) ==
    flatten([i \in 1..Len(Sources) |->
                IF Sources[i] \in done THEN parseCSV(csvFile(f, Sources[i])) ELSE << >>])

\* csvResolved with one setAllStocks per fetch instead of Promise.all: the
\* rows of every source that has fulfilled are searchable at once
csvResolvedIncremental(src) ==
    /\ csvFetch[src] = "pending"
    /\ csvFetch' = [csvFetch EXCEPT ![src] = "done"]
    /\ allStocks' = rowsOfDone(fixture, {s \in SourceSet : csvFetch'[s] = "done"})
    /\ SearchEffect(query, allStocks')
    /\ event' = Event("csv", "ok", Some(src), FALSE)
    /\ UNCHANGED parseVars
    /\ UNCHANGED <<query, selected, fixture, priceVars, aiVars>>

\* csvResolved with the rows concatenated in the order of arrival: the
\* source that fulfils last comes last
csvResolvedArrivalOrder(src) ==
    /\ csvFetch[src] = "pending"
    /\ csvFetch' = [csvFetch EXCEPT ![src] = "done"]
    /\ IF \A s \in SourceSet : csvFetch'[s] = "done"
       THEN /\ allStocks' = rowsOfDone(fixture, SourceSet \ {src})
                                \o parseCSV(csvFile(fixture, src))
            /\ SearchEffect(query, allStocks')
       ELSE UNCHANGED <<allStocks, results>>
    /\ event' = Event("csv", "ok", Some(src), FALSE)
    /\ UNCHANGED parseVars
    /\ UNCHANGED <<query, selected, fixture, priceVars, aiVars>>

\* one of the fetches of lines 60-63 and its res.text() fulfil; when it is
\* the last of the four, Promise.all fulfils and lines 64-71 run, followed
\* by the search effect because allStocks changed
csvResolved(src) ==
    /\ csvFetch[src] = "pending"
    /\ csvFetch' = [csvFetch EXCEPT ![src] = "done"]
    /\ IF \A s \in SourceSet : csvFetch'[s] = "done"
       THEN /\ allStocks' = loadedCatalog(fixture)
            /\ SearchEffect(query, loadedCatalog(fixture))
       ELSE UNCHANGED <<allStocks, results>>
    /\ event' = Event("csv", "ok", Some(src), FALSE)
    /\ UNCHANGED parseVars
    /\ UNCHANGED <<query, selected, fixture, priceVars, aiVars>>

\* one of the fetches of lines 60-63 rejects: Promise.all rejects, the
\* callback of lines 64-71 never runs
csvRejected(src) ==
    /\ csvFetch[src] = "pending"
    /\ csvFetch' = [csvFetch EXCEPT ![src] = "failed"]
    /\ event' = Event("csv", "net", Some(src), FALSE)
    /\ UNCHANGED parseVars
    /\ UNCHANGED <<query, results, selected, allStocks, fixture, priceVars, aiVars>>

Next ==
    \/ \E v \in Queries : onChange(v)
    \/ \E i \in 1..Len(results) : onClickResult(i)
    \/ onClickAnalyze
    \/ \E r \in pricePending, o \in Outcomes, c \in Closes : priceSettled(r, o, c)
    \/ \E r \in aiPending, o \in Outcomes, b \in AiBodies : aiSettled(r, o, b)
    \/ \E src \in SourceSet : csvResolved(src)
    \/ \E src \in SourceSet : csvRejected(src)

\* some price request in flight settles
settlePrice ==
    \E r \in pricePending, o \in Outcomes, c \in Closes : priceSettled(r, o, c)

\* some AI request in flight settles
settleAi ==
    \E r \in aiPending, o \in Outcomes, b \in AiBodies : aiSettled(r, o, b)

Spec == Init /\ [][Next]_vars

\* Spec under the assumption that the network answers: as long as a
\* request is in flight, one of the requests in flight eventually settles,
\* with success or with failure
LiveSpec == Init /\ [][Next]_vars /\ WF_vars(settlePrice) /\ WF_vars(settleAi)

(***************************************************************************)
(* parseCSV on its own: a text is built one character at a time and handed *)
(* to parseCSV (lines 44-55), any number of times.  App stays as mounted.   *)
(***************************************************************************)
\* the characters of the texts: a letter, the delimiter and the line ends
CsvChars == {"A", COMMA, LF, CR}

appVars == <<query, results, selected, allStocks, latestPrice, aiResult,
             loadingPrice, loadingAi, fixture, csvFetch, pricePending,
             aiPending, nPrice, nAi, event>>

ParseInit == Init /\ fixture = 1

\* the text grows by one character
csvAppend(c) ==
    /\ Len(csvText) < MaxCsvLen
    /\ csvText' = Append(csvText, c)
    /\ parsed' = Null
    /\ UNCHANGED appVars

\* a call parseCSV(csvText)
callParseCSV ==
    /\ parsed' = Some(parseCSV(csvText))
    /\ UNCHANGED <<csvText, appVars>>

ParseNext ==
    \/ \E c \in CsvChars : csvAppend(c)
    \/ callParseCSV

ParseSpec == ParseInit /\ [][ParseNext]_vars

(***************************************************************************)
(* Vocabulary of the properties.                                           *)
(***************************************************************************)
\* the request r settles in this step
priceSettles(r) == r \in pricePending /\ r \notin pricePending'

aiSettles(r) == r \in aiPending /\ r \notin aiPending'

\* the request r was issued for a Security other than the Selection sel
otherSecurity(r, sel) == sel # Null /\ identOf(sel[1]) # <<r.Symbol, r.Market>>

\* the price request dispatched for the current Selection: a Selection is
\* only ever entered from null, and each entry dispatches the request
\* numbered nPrice, so while selected is not null this is the latest one
currentPriceInFlight == \E r \in pricePending : r.id = nPrice

(***************************************************************************)
(* C1: a price response issued for security A that settles while another   *)
(* security B is selected changes neither latestPrice nor loadingPrice.    *)
(***************************************************************************)
C1_StalePriceDiscarded ==
    [][\A r \in pricePending :
          priceSettles(r) /\ otherSecurity(r, selected)
              => UNCHANGED <<latestPrice, loadingPrice>>]_vars

(***************************************************************************)
(* C2: an AI response that settles when the Selection is none or another   *)
(* security than the one it was dispatched for changes neither aiResult    *)
(* nor loadingAi.                                                          *)
(***************************************************************************)
C2_StaleAiDiscarded ==
    [][\A r \in aiPending :
          aiSettles(r) /\ (selected = Null \/ otherSecurity(r, selected))
              => UNCHANGED <<aiResult, loadingAi>>]_vars

(***************************************************************************)
(* C3: a step that edits the query while a Selection is active ends with   *)
(* no Selection, also when the new query is not empty, and the ResultSet   *)
(* of the new query exists only together with the cleared Selection.       *)
(***************************************************************************)
C3_EditClearsSelection ==
    [][query' # query /\ selected # Null
          => selected' = Null /\ results' = searchResults(query', allStocks')]_vars

C3_Witness ==
    /\ event.kind = "onChange"
    /\ event.hadSel
    /\ query # << >>
    /\ results # << >>
    /\ selected = Null

(***************************************************************************)
(* C4: a price or AI request that settles with a non-2xx status or with a  *)
(* transport failure leaves the value of its pipeline null and its loading *)
(* flag false; the rest of the state is the same for both kinds of         *)
(* failure, and nothing records which kind it was.                         *)
(***************************************************************************)
C4_FailureCollapsesToNull ==
    [][/\ event'.kind = "price" /\ event'.outcome \in {"http", "net"}
          => /\ latestPrice' = Null
             /\ loadingPrice' = FALSE
             /\ pricePending' = pricePending \ {event'.req[1]}
             /\ UNCHANGED <<query, results, selected, catalogVars, nPrice, aiVars>>
       /\ event'.kind = "ai" /\ event'.outcome \in {"http", "net"}
          => /\ aiResult' = Null
             /\ loadingAi' = FALSE
             /\ aiPending' = aiPending \ {event'.req[1]}
             /\ UNCHANGED <<query, results, selected, catalogVars, nAi, priceVars>>]_vars

C4_Witness ==
    /\ event.kind = "ai"
    /\ event.outcome = "http"
    /\ selected # Null
    /\ identOf(selected[1]) = <<event.req[1].Symbol, event.req[1].Market>>
    /\ aiResult = Null
    /\ ~loadingAi
    /\ latestPrice = Null
    /\ ~loadingPrice

(***************************************************************************)
(* C5: while a Security is selected, loadingPrice is true exactly when the *)
(* price request dispatched for that Selection has not settled yet.        *)
(***************************************************************************)
C5_LoadingTracksCurrentRequest ==
    selected # Null => (loadingPrice <=> currentPriceInFlight)

(***************************************************************************)
(* C6: a step that enters Selected leaves the AI FetchState at             *)
(* loading=false, value=null and the price value at null, whatever         *)
(* requests of earlier Selections are in flight or have settled.           *)
(***************************************************************************)
C6_FetchStatesResetOnEntry ==
    [][selected = Null /\ selected' # Null
          => /\ latestPrice' = Null
             /\ aiResult' = Null
             /\ loadingAi' = FALSE]_vars

(***************************************************************************)
(* C7: a step in which Selection becomes a Security dispatches exactly one *)
(* price request, with that Security's symbol and market; any other step,  *)
(* in particular one in which Selection becomes none, dispatches none.     *)
(***************************************************************************)
C7_OnePriceRequestPerSelection ==
    [][LET new == pricePending' \ pricePending
       IN  IF selected' # selected /\ selected' # Null
           THEN /\ Cardinality(new) = 1
                /\ \A r \in new : /\ r.Symbol = selected'[1].Symbol
                                  /\ r.Market = selected'[1].Market
                /\ pricePending \subseteq pricePending'
                /\ nPrice' = nPrice + 1
           ELSE new = {} /\ nPrice' = nPrice]_vars

C7_Witness ==
    /\ event.kind = "pick"
    /\ nPrice = 2
    /\ Cardinality(pricePending) = 2
    /\ \E r \in pricePending : identOf(selected[1]) # <<r.Symbol, r.Market>>

(***************************************************************************)
(* C8: a step dispatches an AI request only if it is an analyze action     *)
(* taken while a Security is selected, and then exactly one, with that     *)
(* Security's symbol and market; a pick, a query edit and a settling       *)
(* request dispatch none, and no analyze step starts without a Selection.  *)
(***************************************************************************)
C8_AiOnlyOnAnalyze ==
    [][LET new == aiPending' \ aiPending
       IN  /\ new # {}
              => /\ event'.kind = "analyze"
                 /\ selected # Null
                 /\ selected' = selected
                 /\ Cardinality(new) = 1
                 /\ \A r \in new : /\ r.Symbol = selected[1].Symbol
                                   /\ r.Market = selected[1].Market
           /\ event'.kind = "analyze" => selected # Null /\ new # {}
           /\ event'.kind \in {"pick", "onChange", "price", "ai", "csv"}
              => new = {} /\ nAi' = nAi]_vars

C8_Witness ==
    /\ event.kind = "analyze"
    /\ loadingAi
    /\ \E r \in aiPending : r.id = nAi /\ identOf(selected[1]) = <<r.Symbol, r.Market>>
    /\ pricePending # {}

(***************************************************************************)
(* C9: whenever the query is empty the ResultSet is empty, whatever the    *)
(* catalog holds.                                                          *)
(***************************************************************************)
C9_EmptyQueryEmptyResults == query = << >> => results = << >>

C9_Witness ==
    /\ query = << >>
    /\ event.kind = "onChange"
    /\ Len(allStocks) > ResultCap
    /\ nPrice > 0

(***************************************************************************)
(* C10: for a non-empty query the ResultSet is the first                   *)
(* min(20, number of matches) Securities of the catalog, in catalog order, *)
(* whose symbol or name contains the query case-insensitively.             *)
(***************************************************************************)
\* q occurs in s at some offset, characters compared without case
containsNoCase(s, q) ==
    \E off \in 0..(Len(s) - Len(q)) :
        \A k \in 1..Len(q) : toLowerChar(s[off + k]) = toLowerChar(q[k])

\* the catalog positions of the Securities that match the query
matchPositions ==
    {i \in 1..Len(allStocks) :
        \/ containsNoCase(allStocks[i].Symbol, query)
        \/ containsNoCase(allStocks[i].Security, query)}

\* the number of positions of S up to i
rankIn(S, i) == Cardinality({j \in S : j <= i})

C10_ResultsAreFirstMatches ==
    query # << >>
        => LET M == matchPositions
               n == Cardinality(M)
           IN  /\ Len(results) = IF n < 20 THEN n ELSE 20
               /\ \A i \in M :
                      rankIn(M, i) <= 20 => results[rankIn(M, i)] = allStocks[i]

C10_Witness ==
    /\ query # << >>
    /\ Cardinality(matchPositions) > 20
    /\ Cardinality(matchPositions) < Len(allStocks)
    /\ Len(results) = 20

(***************************************************************************)
(* Vocabulary of the catalog load.                                         *)
(***************************************************************************)
\* every source fetch has fulfilled
allDone == \A s \in SourceSet : csvFetch[s] = "done"

\* some source fetch has rejected
anyFailed == \E s \in SourceSet : csvFetch[s] = "failed"

(***************************************************************************)
(* C11: until all four source fetches have completed the catalog seen by   *)
(* search is empty and so is the ResultSet, for every query, also when     *)
(* some sources have already delivered rows that match the query.          *)
(***************************************************************************)
C11_SearchBlockedUntilLoaded ==
    ~allDone => allStocks = << >> /\ results = << >>

C11_Witness ==
    /\ ~allDone
    /\ ~anyFailed
    /\ query # << >>
    /\ \E s \in SourceSet :
          /\ csvFetch[s] = "done"
          /\ searchResults(query, parseCSV(csvFile(fixture, s))) # << >>

(***************************************************************************)
(* C12: whatever the order in which the four source fetches complete, the  *)
(* loaded catalog is the rows of us, kospi, nyse, kosdaq concatenated in   *)
(* that order, each source's rows in the order of its lines.               *)
(***************************************************************************)
C12_CatalogInSourceOrder ==
    allDone
        => allStocks = parseCSV(csvFile(fixture, "us"))
                           \o parseCSV(csvFile(fixture, "ko"))
                           \o parseCSV(csvFile(fixture, "nyse"))
                           \o parseCSV(csvFile(fixture, "kosdaq"))

\* the first source of the list completed last
C12_Witness ==
    /\ allDone
    /\ event.kind = "csv"
    /\ event.req = Some("us")
    /\ parseCSV(csvFile(fixture, "us")) # << >>
    /\ parseCSV(csvFile(fixture, "kosdaq")) # << >>
    /\ Len(allStocks) > Len(parseCSV(csvFile(fixture, "us")))

\* the state App holds and renders from: its eight useState cells
appState == <<query, results, selected, allStocks, latestPrice, aiResult,
              loadingPrice, loadingAi>>

(***************************************************************************)
(* C13: when a source fetch fails the catalog holds no rows, those of the  *)
(* sources that succeeded included, and the step of the first failure      *)
(* takes App to a state that differs from the still-loading state it was   *)
(* in.                                                                     *)
(***************************************************************************)
C13_FailedLoadIsDistinctState ==
    [][/\ anyFailed' => allStocks' = << >>
       /\ ~anyFailed /\ anyFailed' => appState' # appState]_vars

(***************************************************************************)
(* C14: the catalog changes only in the step that completes the startup    *)
(* load; once the load has completed no step (query edit, pick, analyze,   *)
(* settling request) changes it.                                           *)
(***************************************************************************)
C14_CatalogSetOnce ==
    [][/\ allStocks' # allStocks
          => ~allDone /\ allDone' /\ allStocks = << >> /\ event'.kind = "csv"
       /\ allDone => allDone' /\ allStocks' = allStocks]_vars

C14_Witness ==
    /\ allDone
    /\ allStocks # << >>
    /\ event.kind = "ai"
    /\ nPrice = 2
    /\ query # << >>

(***************************************************************************)
(* C15: a Selection exists only with a non-empty query: the controller is  *)
(* in exactly one of Idle, Searching and Selected, and in Selected the     *)
(* Selection is one Security of the catalog.                               *)
(***************************************************************************)
Idle == query = << >> /\ selected = Null

Searching == query # << >> /\ selected = Null

Selected ==
    /\ query # << >>
    /\ Len(selected) = 1
    /\ \E i \in 1..Len(allStocks) : allStocks[i] = selected[1]

C15_ControllerStates ==
    /\ selected # Null => query # << >>
    /\ Cardinality({b \in {<<1, Idle>>, <<2, Searching>>, <<3, Selected>>} : b[2]}) = 1

C15_Witness ==
    /\ Selected
    /\ event.kind = "pick"
    /\ nPrice = 2

(***************************************************************************)
(* C16: parseCSV discards the first line and yields, for every remaining   *)
(* line and in the order of the lines, a Security made of its first three  *)
(* fields with carriage returns removed, exactly when the line has at      *)
(* least three comma-separated fields; shorter lines yield nothing, and    *)
(* parsing the same text again gives the same rows.                        *)
(***************************************************************************)
\* the k-th smallest element of a set of positions
nthOf(S, k) == CHOOSE i \in S : Cardinality({j \in S : j <= i}) = k

\* the positions of the character c in the text t
positionsOf(t, c) == {i \in 1..Len(t) : t[i] = c}

\* the positions at which the lines after the first one start
dataStarts(t) == {i + 1 : i \in positionsOf(t, LF)}

\* the line of t that starts at position s, without its line feed
lineAt(t, s) ==
    LET later == {i \in positionsOf(t, LF) : i >= s}
        stop  == IF later = {} THEN Len(t) ELSE nthOf(later, 1) - 1
    IN  SubSeq(t, s, stop)

\* the k-th comma-separated field of a line that has at least k fields
fieldOf(line, k) ==
    LET commas == positionsOf(line, COMMA)
        from   == IF k = 1 THEN 1 ELSE nthOf(commas, k - 1) + 1
        to     == IF Cardinality(commas) >= k THEN nthOf(commas, k) - 1 ELSE Len(line)
        keep(c) == c # "\r"
    IN  SelectSeq(SubSeq(line, from, to), keep)

\* the starts of the data lines with at least three fields
wellFormedStarts(t) ==
    {s \in dataStarts(t) : Cardinality(positionsOf(lineAt(t, s), COMMA)) >= 2}

C16_ParseCSVRows ==
    parsed # Null
        => LET got == parsed[1]
               W   == wellFormedStarts(csvText)
           IN  /\ Len(got) = Cardinality(W)
               /\ \A s \in W :
                      got[rankIn(W, s)] =
                          [Symbol   |-> fieldOf(lineAt(csvText, s), 1),
                           Security |-> fieldOf(lineAt(csvText, s), 2),
                           Market   |-> fieldOf(lineAt(csvText, s), 3)]

\* a text with a carriage return, a dropped line and a line with an extra
\* field, parsed to one Security with a non-empty field
C16_Witness ==
    /\ parsed # Null
    /\ Len(parsed[1]) = 1
    /\ parsed[1][1].Security # << >>
    /\ positionsOf(csvText, CR) # {}
    /\ Cardinality(dataStarts(csvText)) = 2
    /\ \E s \in dataStarts(csvText) :
          Cardinality(positionsOf(lineAt(csvText, s), COMMA)) >= 3

(***************************************************************************)
(* C17: the unit shown for a Security is decided by its market alone and   *)
(* has two outcomes: the won unit for KOSPI and KOSDAQ, the dollar unit    *)
(* for every other market value.                                           *)
(***************************************************************************)
\* market values that are neither of the two won markets: the empty
\* string, another case, a prefix and an extension of a won market
OddMarkets ==
    {<< >>, toLowerCase(KOSPI), SubSeq(KOSDAQ, 1, 3), KOSPI \o <<"X">>}

\* the markets of the catalog and of the Selection
marketsInUse ==
    {allStocks[i].Market : i \in 1..Len(allStocks)}
        \cup {selected[i].Market : i \in 1..Len(selected)}

C17_UnitByMarket ==
    /\ WON # DOLLAR
    /\ \A m \in marketsInUse \cup OddMarkets :
          /\ getUnit(m) \in {WON, DOLLAR}
          /\ getUnit(m) = WON <=> m \in {KOSPI, KOSDAQ}

\* a KOSPI Security is selected and its price is shown with its unit
\* (line 160), in a catalog that holds both won markets and another one
C17_Witness ==
    /\ selected # Null
    /\ selected[1].Market = KOSPI
    /\ latestPrice # Null
    /\ ~loadingPrice
    /\ {KOSPI, KOSDAQ, NASDAQ} \subseteq marketsInUse

(***************************************************************************)
(* C18: a step in which a price or AI request settles, with success or     *)
(* failure, dispatches no request; the number of requests in flight grows  *)
(* only in a pick step or an analyze step.                                 *)
(***************************************************************************)
inFlight == Cardinality(pricePending) + Cardinality(aiPending)

C18_NoRetry ==
    [][/\ event'.kind \in {"price", "ai"}
          => /\ pricePending' \subseteq pricePending
             /\ aiPending' \subseteq aiPending
             /\ nPrice' = nPrice
             /\ nAi' = nAi
             /\ inFlight' = inFlight - 1
       /\ inFlight' > inFlight => event'.kind \in {"pick", "analyze"}]_vars

\* a failed price request has left nothing in flight for its Selection
C18_Witness ==
    /\ event.kind = "price"
    /\ event.outcome = "net"
    /\ selected # Null
    /\ pricePending = {}
    /\ latestPrice = Null
    /\ nPrice < MaxPriceReq

(***************************************************************************)
(* C19: if every request that is in flight eventually settles, then once   *)
(* the user stops acting (no query edit, no pick, no analyze) both loading *)
(* flags eventually become false and stay false.                           *)
(***************************************************************************)
\* a step of the user: an edit of the query, a pick or an analyze
userActs ==
    \/ query' # query
    \/ selected = Null /\ selected' # Null
    \/ nAi' # nAi

C19_LoadingEventuallyFalse ==
    <>[][~userActs]_vars => <>[](~loadingPrice /\ ~loadingAi)

\* every request of the run has settled, one of them with a failure, and
\* both flags are false
C19_Witness ==
    /\ nPrice = MaxPriceReq
    /\ nAi > 0
    /\ pricePending = {}
    /\ aiPending = {}
    /\ event.outcome \in {"http", "net"}
    /\ ~loadingPrice
    /\ ~loadingAi

(***************************************************************************)
(* C20: in every reachable state at most one AI request is in flight,      *)
(* whatever the Selections it and the current state belong to, and         *)
(* loadingAi is true exactly when an AI request is in flight.              *)
(***************************************************************************)
C20_OneAiRequestInFlight ==
    /\ Cardinality(aiPending) <= 1
    /\ loadingAi <=> aiPending # {}

\* the second AI request of a run is in flight, and it was dispatched for
\* another Security than the one now selected: the button stays disabled
C20_Witness ==
    /\ nAi = 2
    /\ loadingAi
    /\ selected # Null
    /\ \E r \in aiPending : r.id = 2 /\ identOf(selected[1]) # <<r.Symbol, r.Market>>

====
